---------------------------- MODULE Spec2Model ----------------------------
(***************************************************************************)
(* Redis-backed session middleware (fastapi-app/app/session.py).           *)
(*                                                                         *)
(* The model follows RedisSessionMiddleware.__call__ and its send_wrapper  *)
(* for a bounded number of concurrent ASGI calls against one shared store. *)
(* A request takes one step per await that other requests can observe:     *)
(* the read path (one store GET), the handler's mutations of               *)
(* scope["session"], the handling of http.response.start (one store SETEX  *)
(* or DELETE, then the Set-Cookie header), and the forwarding of that      *)
(* message.  The store, the clock of its TTLs and the client are the       *)
(* environment: every store call may raise, keys expire, and a value may   *)
(* be damaged from outside.                                                *)
(***************************************************************************)
EXTENDS Integers, Sequences, FiniteSets, TLC

(***************************************************************************)
(* Bounds of the model.                                                    *)
(***************************************************************************)
NumReq == 2        \* ASGI calls this process handles during one run
NumOld == 1        \* identifiers issued before the run (by this or another replica)
NumFresh == 1      \* identifiers uuid4 can return during the run
max_age == 2       \* the configured TTL, in ticks of the store's clock
NumUsers == 2      \* Keycloak users (values of sub)
NumStudents == 2   \* rows the students table can hold
NumDepts == 1      \* rows the departments table can hold

Req == 1..NumReq
OldIds == {<<"uuid", i>> : i \in 1..NumOld}
FreshIds == {<<"uuid", i>> : i \in (NumOld + 1)..(NumOld + NumFresh)}
Ids == OldIds \cup FreshIds
None == <<>>                       \* Python's None, where an identifier is expected
SessionKeys == {"user", "token"}   \* keys the handlers put in the session
SessionVals == {"v"}               \* values, opaque to the middleware
KeyOrder == <<"user", "token">>    \* order in which a dict lists its keys

(***************************************************************************)
(* Session data: a Python dict with string keys.  The empty dict is falsy. *)
(***************************************************************************)
EmptyDict == <<>>
Dicts == UNION {[D -> SessionVals] : D \in SUBSET SessionKeys}
\* what a handler leaves in the session: nothing, the user, the user and a token
AppDicts == {d \in Dicts : "token" \in DOMAIN d => "user" \in DOMAIN d}
DictTruthy(d) == DOMAIN d # {}
DictSet(d, k, v) == [x \in (DOMAIN d) \cup {k} |-> IF x = k THEN v ELSE d[x]]
DictPop(d, k) == [x \in (DOMAIN d) \ {k} |-> d[x]]

(***************************************************************************)
(* json.dumps / json.loads on such dicts.  A JSON text is a sequence of    *)
(* tokens: "{", then key ":" value groups separated by ",", then "}".      *)
(***************************************************************************)
NoExc == "none"

RECURSIVE DumpsFrom(_, _, _)
DumpsFrom(d, i, first) ==
    IF i > Len(KeyOrder) THEN <<"}">>
    ELSE IF KeyOrder[i] \in DOMAIN d
         THEN (IF first THEN <<>> ELSE <<",">>)
              \o <<KeyOrder[i], ":", d[KeyOrder[i]]>>
              \o DumpsFrom(d, i + 1, FALSE)
         ELSE DumpsFrom(d, i + 1, first)

JsonDumps(d) == <<"{">> \o DumpsFrom(d, 1, TRUE)

Punct == {"{", "}", ":", ","}

RECURSIVE ParseMembers(_, _, _)
\* text[i..] holds the members after "{" (or after a ","); acc is the dict so far
ParseMembers(text, i, acc) ==
    IF i + 3 > Len(text) THEN [exc |-> "JSONDecodeError", val |-> EmptyDict]
    ELSE IF \/ text[i] \in Punct \/ text[i + 1] # ":" \/ text[i + 2] \in Punct
         THEN [exc |-> "JSONDecodeError", val |-> EmptyDict]
    ELSE LET acc2 == DictSet(acc, text[i], text[i + 2])
         IN  IF text[i + 3] = "}"
             THEN IF i + 3 = Len(text)
                  THEN [exc |-> NoExc, val |-> acc2]
                  ELSE [exc |-> "JSONDecodeError", val |-> EmptyDict]
             ELSE IF text[i + 3] = ","
                  THEN ParseMembers(text, i + 4, acc2)
                  ELSE [exc |-> "JSONDecodeError", val |-> EmptyDict]

JsonLoads(text) ==
    IF Len(text) < 2 \/ text[1] # "{"
    THEN [exc |-> "JSONDecodeError", val |-> EmptyDict]
    ELSE IF text[2] = "}"
         THEN IF Len(text) = 2
              THEN [exc |-> NoExc, val |-> EmptyDict]
              ELSE [exc |-> "JSONDecodeError", val |-> EmptyDict]
         ELSE ParseMembers(text, 2, EmptyDict)

(***************************************************************************)
(* URLSafeSerializer(secret_key): dumps encodes the identifier and appends *)
(* a keyed tag over the encoding; loads recomputes the tag and decodes the *)
(* payload only when the tags agree.  A cookie value is the sequence       *)
(* <<payload, tag>>; the empty sequence is the empty string.               *)
(***************************************************************************)
secret_key == "app-secret"
OtherKey == "other-secret"

Encode(id) == <<"b64", id>>
Mac(key, payload) == <<"hmac", key, payload>>
\* the tag is computed with another key than the one loads uses
SignerDumpsOtherKey(id) == <<Encode(id), Mac(OtherKey, Encode(id))>>
SignerDumps(id) == <<Encode(id), Mac(secret_key, Encode(id))>>

\* the payload is decoded without looking at the tag
SignerLoadsUnverified(value) ==
    IF Len(value) # 2 THEN [exc |-> "BadSignature", val |-> None]
    ELSE IF Len(value[1]) # 2 \/ value[1][1] # "b64"
         THEN [exc |-> "BadSignature", val |-> None]
    ELSE [exc |-> NoExc, val |-> value[1][2]]

SignerLoads(value) ==
    IF Len(value) # 2 THEN [exc |-> "BadSignature", val |-> None]
    ELSE IF value[2] # Mac(secret_key, value[1])
         THEN [exc |-> "BadSignature", val |-> None]
    ELSE IF Len(value[1]) # 2 \/ value[1][1] # "b64"
         THEN [exc |-> "BadSignature", val |-> None]
    ELSE [exc |-> NoExc, val |-> value[1][2]]


(***************************************************************************)
(* The store: a map from keys "session:<id>" to a value with a remaining   *)
(* lifetime.  A call that raises leaves the store as it was.               *)
(***************************************************************************)
StoreKeyNoId(id) == <<"session:", None>>
StoreKey(id) == <<"session:", id>>
StoreGet(st, key) == IF key \in DOMAIN st THEN {st[key].val} ELSE {}
\* SET ... NX: an existing key is left as it is
StoreSetexNx(st, key, ttl, val) ==
    IF key \in DOMAIN st THEN st
    ELSE [k \in (DOMAIN st) \cup {key} |->
             IF k = key THEN [val |-> val, ttl |-> ttl] ELSE st[k]]

\* a patch: the members of the old value that the new one lacks are kept
StoreSetexPatch(st, key, ttl, val) ==
    LET old == IF key \in DOMAIN st THEN JsonLoads(st[key].val).val ELSE EmptyDict
        new == JsonLoads(val).val
        merged == [x \in (DOMAIN old) \cup (DOMAIN new) |->
                      IF x \in DOMAIN new THEN new[x] ELSE old[x]]
    IN  [k \in (DOMAIN st) \cup {key} |->
            IF k = key THEN [val |-> JsonDumps(merged), ttl |-> ttl] ELSE st[k]]

\* SET without EX: the key is stored with no expiry (lifetime 0)
StoreSetexNoExpiry(st, key, ttl, val) ==
    [k \in (DOMAIN st) \cup {key} |->
        IF k = key THEN [val |-> val, ttl |-> 0] ELSE st[k]]

\* SET ... KEEPTTL: an existing key keeps the lifetime it has left
StoreSetexKeepTtl(st, key, ttl, val) ==
    [k \in (DOMAIN st) \cup {key} |->
        IF k = key
        THEN [val |-> val, ttl |-> IF key \in DOMAIN st THEN st[key].ttl ELSE ttl]
        ELSE st[k]]

\* SET with XX: only a key that exists is written
StoreSetexXx(st, key, ttl, val) ==
    IF key \in DOMAIN st
    THEN [st EXCEPT ![key] = [val |-> val, ttl |-> ttl]]
    ELSE st

StoreSetex(st, key, ttl, val) ==
    [k \in (DOMAIN st) \cup {key} |->
        IF k = key THEN [val |-> val, ttl |-> ttl] ELSE st[k]]
StoreDelete(st, key) == [k \in (DOMAIN st) \ {key} |-> st[k]]

\* one call on the client, as the request's log keeps it
StoreCall(op, key, ttl, val, ok) ==
    [op |-> op, key |-> key, ttl |-> ttl, val |-> val, ok |-> ok]

\* `if raw:` -- None and the empty string are falsy
RawTruthy(got) == got # {} /\ got # {<<>>}
RawOf(got) == CHOOSE x \in got : TRUE

(***************************************************************************)
(* _get_redis: the client is built on first use; from_url raises on a URL  *)
(* it cannot parse and then leaves self._redis as None.                    *)
(***************************************************************************)
NoClient == "None"
TheClient == "Redis"

\* the client built is handed to the caller but not kept in self._redis
GetRedisNotKept(cl, urlOk) ==
    IF urlOk THEN [exc |-> NoExc, client |-> NoClient]
    ELSE [exc |-> "ValueError", client |-> cl]

GetRedis(cl, urlOk) ==
    IF cl # NoClient THEN [exc |-> NoExc, client |-> cl]
    ELSE IF urlOk THEN [exc |-> NoExc, client |-> TheClient]
    ELSE [exc |-> "ValueError", client |-> cl]

(***************************************************************************)
(* except clauses: every exception of the model derives from Exception.    *)
(***************************************************************************)
ReadExceptBadSignatureOnly == {"BadSignature"}
ReadExcept == {"BadSignature", "Exception"}
WriteExceptKeyErrorOnly == {"KeyError"}
WriteExcept == {"Exception"}
Catches(clause, exc) == exc \in clause \/ "Exception" \in clause

\* connection.cookies.get(self.session_cookie); ck is the set of values the
\* request carries under that name (none or one)
CookiesGet(ck) == ck
CookieTruthy(cv) == cv # {} /\ cv # {<<>>}

(***************************************************************************)
(* The read path of __call__: from the cookie to scope["session"].         *)
(* getOk says whether the store answers the GET.  The result names the     *)
(* locals after the try block, the store calls made, and the exception     *)
(* that left the block uncaught (none in the code as written).             *)
(***************************************************************************)
\* the read path saves the record again when it has found one
ReadResultResaves(sid, data, cl, calls, exc, how) ==
    [session_id |-> sid, initial_data |-> data, client |-> cl,
     calls |-> IF how = "hit"
               THEN calls \o <<StoreCall("setex", StoreKey(sid), max_age,
                                         JsonDumps(data), TRUE)>>
               ELSE calls,
     escaped |-> exc, how |-> how]

ReadResult(sid, data, cl, calls, exc, how) ==
    [session_id |-> sid, initial_data |-> data, client |-> cl,
     calls |-> calls, escaped |-> exc, how |-> how]

\* the except clause leaves session_id as the try block had set it
ReadRaisedKeepsId(sidSoFar, cl, calls, exc, how) ==
    IF Catches(ReadExcept, exc)
    THEN ReadResult(sidSoFar, EmptyDict, cl, calls, NoExc, how)
    ELSE ReadResult(sidSoFar, EmptyDict, cl, calls, exc, how)

ReadRaised(sidSoFar, cl, calls, exc, how) ==
    IF Catches(ReadExcept, exc)
    THEN ReadResult(None, EmptyDict, cl, calls, NoExc, how)
    ELSE ReadResult(sidSoFar, EmptyDict, cl, calls, exc, how)

ReadPath(ck, cl, urlOk, st, getOk) ==
    LET cv == CookiesGet(ck) IN
    IF ~CookieTruthy(cv) THEN ReadResult(None, EmptyDict, cl, <<>>, NoExc, "nocookie")
    ELSE
    LET loaded == SignerLoads(RawOf(cv)) IN
    IF loaded.exc # NoExc THEN ReadRaised(None, cl, <<>>, loaded.exc, "badsig")
    ELSE
    LET sid == loaded.val
        gr == GetRedis(cl, urlOk) IN
    IF gr.exc # NoExc THEN ReadRaised(sid, gr.client, <<>>, gr.exc, "noclient")
    ELSE
    LET call == StoreCall("get", StoreKey(sid), 0, <<>>, getOk) IN
    IF ~getOk THEN ReadRaised(sid, gr.client, <<call>>, "ConnectionError", "getfail")
    ELSE
    LET got == StoreGet(st, StoreKey(sid)) IN
    IF ~RawTruthy(got) THEN ReadResult(sid, EmptyDict, gr.client, <<call>>, NoExc, "absent")
    ELSE
    LET parsed == JsonLoads(RawOf(got)) IN
    IF parsed.exc # NoExc THEN ReadRaised(sid, gr.client, <<call>>, parsed.exc, "malformed")
    ELSE ReadResult(sid, parsed.val, gr.client, <<call>>, NoExc, "hit")


(***************************************************************************)
(* send_wrapper on http.response.start: what is persisted and which        *)
(* Set-Cookie header is appended, from the locals of __call__ and the      *)
(* scope's session at that moment.  fresh is what uuid4 returns if asked;  *)
(* opOk says whether the store answers the SETEX or DELETE.                *)
(***************************************************************************)
session_cookie == "session"
https_only == FALSE

\* the cookie carries the encoded identifier without its tag
IssueCookieUnsigned(id, httpsOnly) ==
    [name |-> session_cookie, value |-> <<Encode(id)>>, path |-> "/",
     httponly |-> TRUE, maxage |-> max_age, samesite |-> "lax",
     secure |-> httpsOnly]

IssueCookie(id, httpsOnly) ==
    [name |-> session_cookie, value |-> SignerDumps(id), path |-> "/",
     httponly |-> TRUE, maxage |-> max_age, samesite |-> "lax",
     secure |-> httpsOnly]

ClearCookie ==
    [name |-> session_cookie, value |-> <<>>, path |-> "/",
     httponly |-> TRUE, maxage |-> 0, samesite |-> "lax", secure |-> FALSE]

WriteResult(st, cl, nid, calls, headers, exc) ==
    [store |-> st, client |-> cl, new_id |-> nid, calls |-> calls,
     headers |-> headers, escaped |-> exc]

\* the outcome of a try block of the write path that raised exc
WriteRaised(exc) == IF Catches(WriteExcept, exc) THEN NoExc ELSE exc

NewIdNotFresh(sid, fresh) == IF sid = None THEN <<"uuid", 1>> ELSE sid
\* the identifier is rotated on every write
NewIdRotates(sid, fresh) == fresh
NewId(sid, fresh) == IF sid = None THEN fresh ELSE sid

\* the keys the two branches address
SetexKeyFromCookie(sid, new_id) == StoreKey(sid)
SetexKey(sid, new_id) == StoreKey(new_id)
DeleteKeyPrefixOnly(sid) == StoreKey(None)
DeleteKey(sid) == StoreKey(sid)

PersistBranch(sid, data, cl, urlOk, st, opOk, fresh) ==
    LET new_id == NewId(sid, fresh)
        gr == GetRedis(cl, urlOk)
        call == StoreCall("setex", SetexKey(sid, new_id), max_age, JsonDumps(data), opOk)
        cookie == <<IssueCookie(new_id, https_only)>>
    IN  IF gr.exc # NoExc
        THEN IF WriteRaised(gr.exc) = NoExc
             THEN WriteResult(st, gr.client, new_id, <<>>, cookie, NoExc)
             ELSE WriteResult(st, gr.client, new_id, <<>>, <<>>, gr.exc)
        ELSE IF ~opOk
        THEN IF WriteRaised("ConnectionError") = NoExc
             THEN WriteResult(st, gr.client, new_id, <<call>>, cookie, NoExc)
             ELSE WriteResult(st, gr.client, new_id, <<call>>, <<>>, "ConnectionError")
        ELSE WriteResult(StoreSetex(st, call.key, call.ttl, call.val),
                         gr.client, new_id, <<call>>, cookie, NoExc)

ClearBranch(sid, cl, urlOk, st, opOk) ==
    LET gr == GetRedis(cl, urlOk)
        call == StoreCall("delete", DeleteKey(sid), 0, <<>>, opOk)
        cookie == <<ClearCookie>>
    IN  IF gr.exc # NoExc
        THEN IF WriteRaised(gr.exc) = NoExc
             THEN WriteResult(st, gr.client, None, <<>>, cookie, NoExc)
             ELSE WriteResult(st, gr.client, None, <<>>, <<>>, gr.exc)
        ELSE IF ~opOk
        THEN IF WriteRaised("ConnectionError") = NoExc
             THEN WriteResult(st, gr.client, None, <<call>>, cookie, NoExc)
             ELSE WriteResult(st, gr.client, None, <<call>>, <<>>, "ConnectionError")
        ELSE WriteResult(StoreDelete(st, call.key), gr.client, None, <<call>>,
                         cookie, NoExc)

\* the context is written whether it is empty or not
SendWrapperStartAlwaysPersists(sid, data, cl, urlOk, st, opOk, fresh) ==
    PersistBranch(sid, data, cl, urlOk, st, opOk, fresh)

SendWrapperStartElseClears(sid, data, cl, urlOk, st, opOk, fresh) ==
    IF DictTruthy(data)
    THEN PersistBranch(sid, data, cl, urlOk, st, opOk, fresh)
    ELSE ClearBranch(sid, cl, urlOk, st, opOk)

SendWrapperStart(sid, data, cl, urlOk, st, opOk, fresh) ==
    IF DictTruthy(data)
    THEN PersistBranch(sid, data, cl, urlOk, st, opOk, fresh)
    ELSE IF sid # None
    THEN ClearBranch(sid, cl, urlOk, st, opOk)
    ELSE WriteResult(st, cl, None, <<>>, <<>>, NoExc)

\* the session is persisted on the body message as well
SendWrapperOnBody(msg, sid, data, cl, urlOk, st, opOk, fresh) ==
    IF msg \in {"http.response.start", "http.response.body"}
    THEN SendWrapperStart(sid, data, cl, urlOk, st, opOk, fresh)
    ELSE WriteResult(st, cl, None, <<>>, <<>>, NoExc)

\* the session is persisted when a websocket is accepted
SendWrapperOnAccept(msg, sid, data, cl, urlOk, st, opOk, fresh) ==
    IF msg \in {"http.response.start", "websocket.accept"}
    THEN SendWrapperStart(sid, data, cl, urlOk, st, opOk, fresh)
    ELSE WriteResult(st, cl, None, <<>>, <<>>, NoExc)

\* send_wrapper on a message of type msg: only http.response.start is acted on
SendWrapper(msg, sid, data, cl, urlOk, st, opOk, fresh) ==
    IF msg = "http.response.start"
    THEN SendWrapperStart(sid, data, cl, urlOk, st, opOk, fresh)
    ELSE WriteResult(st, cl, None, <<>>, <<>>, NoExc)


(***************************************************************************)
(* State.                                                                  *)
(*   store        the shared key-value store                               *)
(*   redisClient  self._redis                                              *)
(*   redis_url_ok whether from_url accepts the configured redis_url        *)
(*   jar          the cookie values clients hold                           *)
(*   minted       how many identifiers uuid4 has returned                  *)
(*   req          one record per ASGI call: where it stands (pc), its      *)
(*                scope type and cookie, the locals session_id and new_id, *)
(*                scope["session"], and what the call has done so far:     *)
(*                how the read path ended, the data it attached, the       *)
(*                store calls made,                                        *)
(*                the Set-Cookie headers appended, an exception that left  *)
(*                the middleware, and whether the key it wrote or deleted  *)
(*                is still as it left it.  The record is dropped when the  *)
(*                call returns.                                            *)
(*   db, resp     the database and the last response of the routes         *)
(***************************************************************************)
VARIABLES store, redisClient, redis_url_ok, jar, minted, req, db, resp

vars == <<store, redisClient, redis_url_ok, jar, minted, req, db, resp>>

\* the application database (students, departments) after init_db, and the
\* last response of a route; the middleware touches neither
EmptyDb == [students |-> <<>>, departments |-> <<>>]
NoResp == [route |-> "none", id |-> 0, status |-> 0, session |-> <<>>,
           location |-> <<>>, shown |-> {}]

ScopeTypes == {"http", "websocket", "lifespan"}

\* cookies signed by this deployment before the run, and forgeries of them
OldCookies == {SignerDumps(id) : id \in OldIds}
Forged(id) == <<Encode(id), Mac(OtherKey, Encode(id))>>
BadCookies == {Forged(id) : id \in OldIds}
ClientCookies == {{}} \cup {{v} : v \in jar \cup BadCookies}

NewReq ==
    [pc |-> "new", type |-> "http", cookies |-> {}, attached |-> FALSE,
     session_id |-> None, new_id |-> None, session |-> EmptyDict,
     how |-> "new", initial |-> EmptyDict,
     calls |-> <<>>, headers |-> <<>>, escaped |-> NoExc, intact |-> FALSE]

DoneReq == [NewReq EXCEPT !.pc = "done"]

\* what the replicas may have left in the shared store for the old identifiers
OldRecord == [val |-> JsonDumps([k \in {"user"} |-> "v"]), ttl |-> max_age]
InitStores == UNION {[{StoreKey(id) : id \in S} -> {OldRecord}] : S \in SUBSET OldIds}

\* a deployment whose redis_url from_url accepts
Init ==
    /\ store \in InitStores
    /\ redisClient = NoClient
    /\ redis_url_ok = TRUE
    /\ jar = OldCookies
    /\ minted = 0
    /\ req = [r \in Req |-> NewReq]
    /\ db = EmptyDb
    /\ resp = NoResp

\* any deployment: from_url may also reject the configured redis_url
InitAnyUrl ==
    /\ store \in InitStores
    /\ redisClient = NoClient
    /\ redis_url_ok \in BOOLEAN
    /\ jar = OldCookies
    /\ minted = 0
    /\ req = [r \in Req |-> NewReq]
    /\ db = EmptyDb
    /\ resp = NoResp

(***************************************************************************)
(* Bookkeeping: a call's mark `intact` falls when the key of its SETEX or  *)
(* DELETE gets another value, appears or disappears.                       *)
(***************************************************************************)
SameAt(st1, st2, key) ==
    /\ (key \in DOMAIN st1) = (key \in DOMAIN st2)
    /\ key \in DOMAIN st1 => st1[key].val = st2[key].val

WroteKey(q) ==
    LET ws == SelectSeq(q.calls, LAMBDA c : c.op # "get") IN
    IF ws = <<>> THEN {} ELSE {ws[Len(ws)].key}

Track(rq, st2) ==
    [q \in Req |->
        [rq[q] EXCEPT !.intact = @ /\ \A k \in WroteKey(rq[q]) : SameAt(store, st2, k)]]

(***************************************************************************)
(* __call__ up to the call of the wrapped app.  A scope that is neither    *)
(* http nor websocket goes to the app as it came.  Calls begin in the      *)
(* order of their numbers.                                                 *)
(***************************************************************************)
\* every scope type is given the session treatment
CallAnyScope(r, t, ck, getOk) ==
    /\ req[r].pc = "new"
    /\ \A q \in 1..(r - 1) : req[q].pc # "new"
    /\ LET rd == ReadPath(ck, redisClient, redis_url_ok, store, getOk) IN
       /\ req' = [req EXCEPT
                    ![r].pc = IF rd.escaped = NoExc THEN "app" ELSE "failed",
                    ![r].type = t,
                    ![r].cookies = ck,
                    ![r].attached = (rd.escaped = NoExc),
                    ![r].session_id = rd.session_id,
                    ![r].session = rd.initial_data,
                    ![r].initial = rd.initial_data,
                    ![r].how = rd.how,
                    ![r].calls = rd.calls,
                    ![r].escaped = rd.escaped]
       /\ redisClient' = rd.client
    /\ UNCHANGED <<store, redis_url_ok, jar, minted, db, resp>>

Call(r, t, ck, getOk) ==
    /\ req[r].pc = "new"
    /\ \A q \in 1..(r - 1) : req[q].pc # "new"
    /\ IF t \notin {"http", "websocket"}
       THEN /\ req' = [req EXCEPT ![r].pc = "app", ![r].type = t,
                                  ![r].cookies = ck, ![r].how = "passthrough"]
            /\ UNCHANGED redisClient
       ELSE LET rd == ReadPath(ck, redisClient, redis_url_ok, store, getOk) IN
            /\ req' = [req EXCEPT
                         ![r].pc = IF rd.escaped = NoExc THEN "app" ELSE "failed",
                         ![r].type = t,
                         ![r].cookies = ck,
                         ![r].attached = (rd.escaped = NoExc),
                         ![r].session_id = rd.session_id,
                         ![r].session = rd.initial_data,
                         ![r].initial = rd.initial_data,
                         ![r].how = rd.how,
                         ![r].calls = rd.calls,
                         ![r].escaped = rd.escaped]
            /\ redisClient' = rd.client
    /\ UNCHANGED <<store, redis_url_ok, jar, minted, db, resp>>

(***************************************************************************)
(* The wrapped app works on scope["session"]: it may leave any dict there. *)
(***************************************************************************)
AppMutates(r, d) ==
    /\ req[r].pc = "app"
    /\ req[r].attached
    /\ d # req[r].session
    /\ req' = [req EXCEPT ![r].session = d]
    /\ UNCHANGED <<store, redisClient, redis_url_ok, jar, minted, db, resp>>

(***************************************************************************)
(* send_wrapper receives http.response.start: one store call at most, then *)
(* the header; the message is now ready for `await send(message)`.         *)
(* uuid4 returns an identifier it has not returned before.                 *)
(***************************************************************************)
Uuid4 == <<"uuid", NumOld + minted + 1>>
NeedsUuid(r) == DictTruthy(req[r].session) /\ req[r].session_id = None

ResponseStart(r, opOk) ==
    /\ req[r].pc = "app"
    /\ req[r].type = "http"
    /\ NeedsUuid(r) => minted < NumFresh
    /\ LET w == SendWrapper("http.response.start", req[r].session_id,
                            req[r].session, redisClient, redis_url_ok, store,
                            opOk, Uuid4)
           mine == [req EXCEPT
                    ![r].pc = IF w.escaped = NoExc THEN "started" ELSE "failed",
                    ![r].new_id = w.new_id,
                    ![r].calls = req[r].calls \o w.calls,
                    ![r].headers = w.headers,
                    ![r].escaped = w.escaped,
                    ![r].intact = TRUE]
       IN
       /\ req' = [Track(mine, w.store) EXCEPT ![r].intact = TRUE]
       /\ store' = w.store
       /\ redisClient' = w.client
    /\ minted' = IF NeedsUuid(r) THEN minted + 1 ELSE minted
    /\ UNCHANGED <<redis_url_ok, jar, db, resp>>

\* `await send(message)` for the http.response.start message: the client
\* receives the headers
Forward(r) ==
    /\ req[r].pc = "started"
    /\ req' = [req EXCEPT ![r].pc = "sent"]
    /\ jar' = jar \cup {req[r].headers[i].value : i \in 1..Len(req[r].headers)}
    /\ UNCHANGED <<store, redisClient, redis_url_ok, minted, db, resp>>

(***************************************************************************)
(* The rest of the call.  For http the app may change the session once     *)
(* more, sends http.response.body through send_wrapper and returns; for    *)
(* websocket its messages go through send_wrapper too; for any other scope *)
(* the app was given the caller's own send.  The scope and the locals go   *)
(* when the call returns.                                                  *)
(***************************************************************************)
LaterMessage(t) == IF t = "http" THEN "http.response.body" ELSE "websocket.accept"

Finish(r, d) ==
    /\ \/ req[r].pc = "sent"
       \/ req[r].pc = "app" /\ req[r].type # "http"
    /\ req[r].type # "http" => d = req[r].session
    /\ LET w == IF req[r].type \in {"http", "websocket"}
                THEN SendWrapper(LaterMessage(req[r].type), req[r].session_id, d,
                                 redisClient, redis_url_ok, store, TRUE, Uuid4)
                ELSE WriteResult(store, redisClient, None, <<>>, <<>>, NoExc)
       IN
       /\ store' = w.store
       /\ redisClient' = w.client
       /\ jar' = jar \cup {w.headers[i].value : i \in 1..Len(w.headers)}
       /\ req' = [Track(req, w.store) EXCEPT ![r] = DoneReq]
    /\ UNCHANGED <<redis_url_ok, minted, db, resp>>

(***************************************************************************)
(* The environment of the store: time passes and keys whose lifetime ends  *)
(* are removed; a stored value is damaged (cut short).                     *)
(***************************************************************************)
Tick ==
    /\ DOMAIN store # {}
    /\ LET st2 == [k \in {x \in DOMAIN store : store[x].ttl > 1} |->
                      [store[k] EXCEPT !.ttl = @ - 1]] IN
       /\ store' = st2
       /\ req' = Track(req, st2)
    /\ UNCHANGED <<redisClient, redis_url_ok, jar, minted, db, resp>>

Damaged == {<<"{">>}

Corrupt(k, v) ==
    /\ k \in DOMAIN store
    /\ v # store[k].val
    /\ LET st2 == [store EXCEPT ![k].val = v] IN
       /\ store' = st2
       /\ req' = Track(req, st2)
    /\ UNCHANGED <<redisClient, redis_url_ok, jar, minted, db, resp>>

Next ==
    \/ \E r \in Req, t \in ScopeTypes, ck \in ClientCookies, getOk \in BOOLEAN :
          Call(r, t, ck, getOk)
    \/ \E r \in Req, d \in AppDicts : AppMutates(r, d)
    \/ \E r \in Req, opOk \in BOOLEAN : ResponseStart(r, opOk)
    \/ \E r \in Req : Forward(r)
    \/ \E r \in Req, d \in AppDicts : Finish(r, d)
    \/ Tick
    \/ \E k \in DOMAIN store, v \in Damaged : Corrupt(k, v)

Spec == Init /\ [][Next]_vars

SpecAnyUrl == InitAnyUrl /\ [][Next]_vars

\* the event loop resumes a coroutine whose awaited send can complete
FairSpec == SpecAnyUrl /\ \A r \in Req : WF_vars(Forward(r))

(***************************************************************************)
(* Cancellation.  The server cancels the task of a request (the client     *)
(* went away): CancelledError is raised at the await the task is suspended *)
(* on.  It derives from BaseException, so neither except clause of the     *)
(* middleware catches it, and the call ends there.  The awaits are the     *)
(* store GET of the read path, the wrapped app, the SETEX or DELETE of     *)
(* send_wrapper (the store may or may not have executed the command), and  *)
(* `await send(message)`.  The record of a cancelled call is kept, with    *)
(* the place of the cancellation in pc.                                    *)
(***************************************************************************)
CancelledAt == {"cancelled:read", "cancelled:app", "cancelled:store",
                "cancelled:send", "cancelled:body"}

\* during `await redis.get(...)`
CancelInRead(r, t, ck) ==
    /\ req[r].pc = "new"
    /\ \A q \in 1..(r - 1) : req[q].pc # "new"
    /\ t \in {"http", "websocket"}
    /\ LET rd == ReadPath(ck, redisClient, redis_url_ok, store, FALSE) IN
       /\ rd.how = "getfail"
       /\ req' = [req EXCEPT ![r].pc = "cancelled:read", ![r].type = t,
                             ![r].cookies = ck, ![r].how = "cancelled",
                             ![r].calls = rd.calls]
       /\ redisClient' = rd.client
    /\ UNCHANGED <<store, redis_url_ok, jar, minted, db, resp>>

\* inside the wrapped app, or during an `await send(message)`
Cancel(r) ==
    /\ req[r].pc \in {"app", "started", "sent"}
    /\ req' = [req EXCEPT ![r].pc = CASE req[r].pc = "app" -> "cancelled:app"
                                      [] req[r].pc = "started" -> "cancelled:send"
                                      [] OTHER -> "cancelled:body"]
    /\ UNCHANGED <<store, redisClient, redis_url_ok, jar, minted, db, resp>>

\* during `await redis.setex(...)` or `await redis.delete(...)`; applied says
\* whether the store had executed the command
CancelInStoreCall(r, applied) ==
    /\ req[r].pc = "app"
    /\ req[r].type = "http"
    /\ NeedsUuid(r) => minted < NumFresh
    /\ LET w == SendWrapper("http.response.start", req[r].session_id,
                            req[r].session, redisClient, redis_url_ok, store,
                            TRUE, Uuid4)
           st2 == IF applied THEN w.store ELSE store
           mine == [req EXCEPT
                    ![r].pc = "cancelled:store",
                    ![r].new_id = w.new_id,
                    ![r].calls = req[r].calls
                                 \o [i \in 1..Len(w.calls) |->
                                        [w.calls[i] EXCEPT !.ok = applied]]]
       IN
       /\ Len(w.calls) = 1
       /\ req' = Track(mine, st2)
       /\ store' = st2
       /\ redisClient' = w.client
    /\ minted' = IF NeedsUuid(r) THEN minted + 1 ELSE minted
    /\ UNCHANGED <<redis_url_ok, jar, db, resp>>

NextCancel ==
    \/ Next
    \/ \E r \in Req, t \in ScopeTypes, ck \in ClientCookies : CancelInRead(r, t, ck)
    \/ \E r \in Req : Cancel(r)
    \/ \E r \in Req, applied \in BOOLEAN : CancelInStoreCall(r, applied)

SpecCancel == Init /\ [][NextCancel]_vars

(***************************************************************************)
(* The routes behind the middleware (main.py, routes/, dependencies.py).   *)
(* A handler is a function of request.session, the path and form           *)
(* arguments and the database; it gives a status, a redirect location, the *)
(* student rows it shows, and the database it leaves.  An HTTPException    *)
(* raised by a dependency or a handler is the response; an IntegrityError  *)
(* on commit is a 500 and the transaction is rolled back.                  *)
(***************************************************************************)
Subs == {<<"sub", i>> : i \in 1..NumUsers}
Roles == {"admin", "staff", "student"}
Emails == {"e1", "e2"}
DeptNames == {"d1"}
EmptyStr == <<"">>                       \* the empty string of a form field

DictGet(d, k, default) == IF k \in DOMAIN d THEN d[k] ELSE default

\* request.session as callback leaves it, for a user and the client roles
UserOf(sub) == [k \in {"sub"} |-> sub]
TokenOf(roles) ==
    [k \in {"resource_access"} |->
        [c \in {"student-app"} |-> [x \in {"roles"} |-> roles]]]
SessionOf(user, token) == [k \in {"user", "token"} |-> IF k = "user" THEN user ELSE token]

Raise(status) == [raised |-> TRUE, status |-> status, val |-> None]
Return(val) == [raised |-> FALSE, status |-> 200, val |-> val]

get_current_user(session) ==
    LET user == DictGet(session, "user", None) IN
    IF ~DictTruthy(user) THEN Raise(401) ELSE Return(user)

get_user_roles(session) ==
    LET token == DictGet(session, "token", EmptyDict)
        resource_access == DictGet(token, "resource_access", EmptyDict)
        client_roles == DictGet(resource_access, "student-app", EmptyDict)
    IN  DictGet(client_roles, "roles", {})

require_authenticated(session) == get_current_user(session)

\* the role is not looked at
require_admin_any_user(session) == get_current_user(session)

require_admin(session) ==
    LET user == get_current_user(session) IN
    IF user.raised THEN user
    ELSE IF "admin" \notin get_user_roles(session) THEN Raise(403)
    ELSE user

\* the ids of the rows .first() returns: none or one
First(hits) ==
    IF hits = {} THEN {} ELSE {CHOOSE i \in hits : \A j \in hits : i <= j}

get_student_for_user(session, d) ==
    LET user == get_current_user(session).val
        keycloak_user_id == DictGet(user, "sub", None)
    IN  IF keycloak_user_id = None THEN {}
        ELSE First({i \in 1..Len(d.students) :
                      d.students[i].keycloak_user_id = keycloak_user_id})

Out(status, location, shown, d) ==
    [status |-> status, location |-> location, shown |-> shown, db |-> d]

OrNone(v) == IF v = EmptyStr THEN None ELSE v
IntOrNone(v) == IF v = EmptyStr THEN None ELSE <<"int", v[2]>>

\* the unique constraints of models.py
StudentConflict(rows, row, self) ==
    \E i \in (1..Len(rows)) \ {self} :
        \/ rows[i].email = row.email
        \/ row.keycloak_user_id # None /\ rows[i].keycloak_user_id = row.keycloak_user_id
DeptConflict(rows, row, self) ==
    \E i \in (1..Len(rows)) \ {self} : rows[i].name = row.name

Names == {"n"}
Descriptions == {EmptyStr, <<"text">>}
StudentForms ==
    [name : Names, email : Emails, keycloak_user_id : {EmptyStr} \cup Subs,
     department_id : {EmptyStr} \cup {<<"digits", i>> : i \in 1..NumDepts}]
DeptForms == [name : DeptNames, description : Descriptions]
StudentIds == 1..(NumStudents + 1)       \* the last one is never a row
DeptIds == 1..(NumDepts + 1)

StudentRow(form) ==
    [name |-> form.name, email |-> form.email,
     keycloak_user_id |-> OrNone(form.keycloak_user_id),
     department_id |-> IntOrNone(form.department_id)]
DeptRow(form) == [name |-> form.name, description |-> OrNone(form.description)]

AllStudents(d) == 1..Len(d.students)

home(session) ==
    LET user == DictGet(session, "user", None) IN
    IF ~DictTruthy(user) THEN [status |-> 302, location |-> <<"/login-page">>]
    ELSE [status |-> 200, location |-> <<>>]

list_students(session, d) ==
    LET dep == require_authenticated(session)
        roles == get_user_roles(session)
    IN  IF dep.raised THEN Out(dep.status, <<>>, {}, d)
        ELSE IF "admin" \in roles \/ "staff" \in roles
             THEN Out(200, <<>>, AllStudents(d), d)
        ELSE IF "student" \in roles
             THEN Out(200, <<>>, get_student_for_user(session, d), d)
        ELSE Out(200, <<>>, {}, d)

new_student_form(session, d) ==
    LET dep == require_admin(session) IN
    IF dep.raised THEN Out(dep.status, <<>>, {}, d) ELSE Out(200, <<>>, {}, d)

create_student(session, form, d) ==
    LET dep == require_admin(session)
        student == StudentRow(form)
    IN  IF dep.raised THEN Out(dep.status, <<>>, {}, d)
        ELSE IF StudentConflict(d.students, student, 0) THEN Out(500, <<>>, {}, d)
        ELSE Out(302, <<"/students/">>, {},
                 [d EXCEPT !.students = Append(@, student)])

\* the handler without the test of lines 98-100
student_detail_any_student(session, student_id, d) ==
    LET dep == require_authenticated(session) IN
    IF dep.raised THEN Out(dep.status, <<>>, {}, d)
    ELSE IF student_id \notin AllStudents(d) THEN Out(404, <<>>, {}, d)
    ELSE Out(200, <<>>, {student_id}, d)

student_detail(session, student_id, d) ==
    LET dep == require_authenticated(session)
        roles == get_user_roles(session)
    IN  IF dep.raised THEN Out(dep.status, <<>>, {}, d)
        ELSE IF student_id \notin AllStudents(d) THEN Out(404, <<>>, {}, d)
        ELSE IF /\ "student" \in roles /\ "admin" \notin roles /\ "staff" \notin roles
                /\ d.students[student_id].keycloak_user_id # DictGet(dep.val, "sub", None)
             THEN Out(403, <<>>, {}, d)
        ELSE Out(200, <<>>, {student_id}, d)

edit_student_form(session, student_id, d) ==
    LET dep == require_admin(session) IN
    IF dep.raised THEN Out(dep.status, <<>>, {}, d)
    ELSE IF student_id \notin AllStudents(d) THEN Out(404, <<>>, {}, d)
    ELSE Out(200, <<>>, {student_id}, d)

update_student(session, student_id, form, d) ==
    LET dep == require_admin(session)
        student == StudentRow(form)
    IN  IF dep.raised THEN Out(dep.status, <<>>, {}, d)
        ELSE IF student_id \notin AllStudents(d) THEN Out(404, <<>>, {}, d)
        ELSE IF StudentConflict(d.students, student, student_id) THEN Out(500, <<>>, {}, d)
        ELSE Out(302, <<"/students/", student_id>>, {},
                 [d EXCEPT !.students[student_id] = student])

list_departments(session, d) ==
    LET dep == require_authenticated(session) IN
    IF dep.raised THEN Out(dep.status, <<>>, {}, d) ELSE Out(200, <<>>, {}, d)

new_department_form(session, d) ==
    LET dep == require_admin(session) IN
    IF dep.raised THEN Out(dep.status, <<>>, {}, d) ELSE Out(200, <<>>, {}, d)

create_department(session, form, d) ==
    LET dep == require_admin(session)
        department == DeptRow(form)
    IN  IF dep.raised THEN Out(dep.status, <<>>, {}, d)
        ELSE IF DeptConflict(d.departments, department, 0) THEN Out(500, <<>>, {}, d)
        ELSE Out(302, <<"/departments/">>, {},
                 [d EXCEPT !.departments = Append(@, department)])

department_detail(session, department_id, d) ==
    LET dep == require_authenticated(session) IN
    IF dep.raised THEN Out(dep.status, <<>>, {}, d)
    ELSE IF department_id \notin 1..Len(d.departments) THEN Out(404, <<>>, {}, d)
    ELSE Out(200, <<>>, {}, d)

edit_department_form(session, department_id, d) ==
    LET dep == require_admin(session) IN
    IF dep.raised THEN Out(dep.status, <<>>, {}, d)
    ELSE IF department_id \notin 1..Len(d.departments) THEN Out(404, <<>>, {}, d)
    ELSE Out(200, <<>>, {}, d)

update_department(session, department_id, form, d) ==
    LET dep == require_admin(session)
        department == DeptRow(form)
    IN  IF dep.raised THEN Out(dep.status, <<>>, {}, d)
        ELSE IF department_id \notin 1..Len(d.departments) THEN Out(404, <<>>, {}, d)
        ELSE IF DeptConflict(d.departments, department, department_id)
             THEN Out(500, <<>>, {}, d)
        ELSE Out(302, <<"/departments/", department_id>>, {},
                 [d EXCEPT !.departments[department_id] = department])

\* The sessions the clients of the model hold: nobody, an admin token left
\* without its user, a student, a member of staff, an admin.
ClientSessions ==
    {EmptyDict, [k \in {"token"} |-> TokenOf({"admin"})]}
    \cup {SessionOf(UserOf(<<"sub", 1>>), TokenOf({role})) : role \in Roles}

\* what the database takes: the rows fit the tables and a department a
\* student row names exists
DbFits(d) ==
    /\ Len(d.students) <= NumStudents
    /\ Len(d.departments) <= NumDepts
    /\ \A i \in 1..Len(d.students) :
          LET dept == d.students[i].department_id IN
          dept # None => dept[2] \in 1..Len(d.departments)

Respond(route, id, session, out) ==
    /\ DbFits(out.db)
    /\ db' = out.db
    /\ resp' = [route |-> route, id |-> id, status |-> out.status, session |-> session,
                location |-> out.location, shown |-> out.shown]
    /\ UNCHANGED <<store, redisClient, redis_url_ok, jar, minted, req>>

Home ==
    \E session \in ClientSessions :
        LET out == home(session) IN
        Respond("home", 0, session, Out(out.status, out.location, {}, db))
ListStudents ==
    \E session \in ClientSessions :
        Respond("list_students", 0, session, list_students(session, db))
NewStudentForm ==
    \E session \in ClientSessions :
        Respond("new_student_form", 0, session, new_student_form(session, db))
CreateStudent ==
    \E session \in ClientSessions, form \in StudentForms :
        Respond("create_student", 0, session, create_student(session, form, db))
StudentDetail ==
    \E session \in ClientSessions, student_id \in StudentIds :
        Respond("student_detail", student_id, session, student_detail(session, student_id, db))
EditStudentForm ==
    \E session \in ClientSessions, student_id \in StudentIds :
        Respond("edit_student_form", student_id, session,
                edit_student_form(session, student_id, db))
UpdateStudent ==
    \E session \in ClientSessions, student_id \in StudentIds, form \in StudentForms :
        Respond("update_student", student_id, session,
                update_student(session, student_id, form, db))
ListDepartments ==
    \E session \in ClientSessions :
        Respond("list_departments", 0, session, list_departments(session, db))
NewDepartmentForm ==
    \E session \in ClientSessions :
        Respond("new_department_form", 0, session, new_department_form(session, db))
CreateDepartment ==
    \E session \in ClientSessions, form \in DeptForms :
        Respond("create_department", 0, session, create_department(session, form, db))
DepartmentDetail ==
    \E session \in ClientSessions, department_id \in DeptIds :
        Respond("department_detail", department_id, session,
                department_detail(session, department_id, db))
EditDepartmentForm ==
    \E session \in ClientSessions, department_id \in DeptIds :
        Respond("edit_department_form", department_id, session,
                edit_department_form(session, department_id, db))
UpdateDepartment ==
    \E session \in ClientSessions, department_id \in DeptIds, form \in DeptForms :
        Respond("update_department", department_id, session,
                update_department(session, department_id, form, db))

NextRoutes ==
    \/ Home
    \/ ListStudents
    \/ NewStudentForm
    \/ CreateStudent
    \/ StudentDetail
    \/ EditStudentForm
    \/ UpdateStudent
    \/ ListDepartments
    \/ NewDepartmentForm
    \/ CreateDepartment
    \/ DepartmentDetail
    \/ EditDepartmentForm
    \/ UpdateDepartment

SpecRoutes == Init /\ [][NextRoutes]_vars

(***************************************************************************)
(* Vocabulary of the properties.                                           *)
(***************************************************************************)
\* the start axis, read off the request's cookie
NoCookie(q) == q.cookies = {}
CookieVerifies(q) ==
    CookieTruthy(q.cookies) /\ SignerLoads(RawOf(q.cookies)).exc = NoExc
CookieId(q) == SignerLoads(RawOf(q.cookies)).val
InvalidCookie(q) == CookieTruthy(q.cookies) /\ ~CookieVerifies(q)

\* the store calls of a request, by kind
Reads(q) == SelectSeq(q.calls, LAMBDA c : c.op = "get")
Writes(q) == SelectSeq(q.calls, LAMBDA c : c.op # "get")
Setexes(q) == SelectSeq(q.calls, LAMBDA c : c.op = "setex")
Deletes(q) == SelectSeq(q.calls, LAMBDA c : c.op = "delete")

\* send_wrapper has handled http.response.start (the session is as it was then)
PastStart(q) == q.type = "http" /\ q.pc \in {"started", "sent"}
\* ... and the message has reached the client
Responded(q) == q.type = "http" /\ q.pc = "sent"
\* this step is request r entering __call__
CallStep(r) == req[r].pc = "new" /\ req'[r].pc # "new"
\* this step is request r's http.response.start
StartStep(r) == req[r].pc = "app" /\ req'[r].pc \in {"started", "failed"}

(***************************************************************************)
(* C1 (as stated): a request without cookie leaves data D in the session;  *)
(* any later request presenting the cookie of that response starts its     *)
(* handler with a session equal to D.                                      *)
(***************************************************************************)
C1_RoundTripAlways ==
    [][\A r1, r2 \in Req :
          ( /\ r1 # r2
            /\ Responded(req[r1]) /\ NoCookie(req[r1])
            /\ DictTruthy(req[r1].session)
            /\ Len(req[r1].headers) = 1
            /\ CallStep(r2)
            /\ req'[r2].type \in {"http", "websocket"}
            /\ req'[r2].cookies = {req[r1].headers[1].value} )
          => /\ req'[r2].pc = "app"
             /\ req'[r2].session = req[r1].session]_vars

(***************************************************************************)
(* C1 (amended): ... provided the SETEX of that response succeeded, the    *)
(* record is still as that SETEX left it when the later request reads it,  *)
(* and that read succeeds.                                                 *)
(***************************************************************************)
C1_RoundTrip ==
    [][\A r1, r2 \in Req :
          ( /\ r1 # r2
            /\ Responded(req[r1]) /\ NoCookie(req[r1])
            /\ DictTruthy(req[r1].session)
            /\ Len(req[r1].headers) = 1
            /\ Len(Setexes(req[r1])) = 1 /\ Setexes(req[r1])[1].ok
            /\ req[r1].intact
            /\ CallStep(r2)
            /\ req'[r2].type \in {"http", "websocket"}
            /\ req'[r2].cookies = {req[r1].headers[1].value}
            /\ Len(Reads(req'[r2])) = 1 /\ Reads(req'[r2])[1].ok )
          => /\ req'[r2].pc = "app"
             /\ req'[r2].attached
             /\ req'[r2].session = req[r1].session]_vars

C1_Witness ==
    \E r1, r2 \in Req :
        /\ Responded(req[r1]) /\ NoCookie(req[r1])
        /\ req[r1].session = [k \in {"user", "token"} |-> "v"]
        /\ Len(req[r1].headers) = 1
        /\ req[r2].pc = "app"
        /\ req[r2].cookies = {req[r1].headers[1].value}
        /\ req[r2].session = req[r1].session

(***************************************************************************)
(* C2 (as stated): once a request whose cookie verifies to id has ended    *)
(* with an empty session, any later request presenting that cookie starts  *)
(* with an empty session and the store does not hold session:<id>.         *)
(***************************************************************************)
C2_DestroyedAlways ==
    [][\A r1, r2 \in Req :
          ( /\ r1 # r2
            /\ Responded(req[r1]) /\ CookieVerifies(req[r1])
            /\ req[r1].session = EmptyDict
            /\ CallStep(r2)
            /\ req'[r2].type \in {"http", "websocket"}
            /\ req'[r2].cookies = req[r1].cookies )
          => /\ req'[r2].session = EmptyDict
             /\ StoreKey(CookieId(req[r1])) \notin DOMAIN store]_vars

(***************************************************************************)
(* C2 (amended): ... provided that request's DELETE of session:<id>        *)
(* succeeded and the key has not been written again since.                 *)
(***************************************************************************)
C2_Destroyed ==
    [][\A r1, r2 \in Req :
          ( /\ r1 # r2
            /\ Responded(req[r1]) /\ CookieVerifies(req[r1])
            /\ req[r1].session = EmptyDict
            /\ Len(Deletes(req[r1])) = 1 /\ Deletes(req[r1])[1].ok
            /\ req[r1].intact
            /\ CallStep(r2)
            /\ req'[r2].type \in {"http", "websocket"}
            /\ req'[r2].cookies = req[r1].cookies )
          => /\ req'[r2].pc = "app"
             /\ req'[r2].session = EmptyDict
             /\ StoreKey(CookieId(req[r1])) \notin DOMAIN store]_vars

C2_Witness ==
    \E r1, r2 \in Req :
        /\ Responded(req[r1]) /\ CookieVerifies(req[r1])
        /\ DictTruthy(req[r1].initial)
        /\ req[r1].session = EmptyDict
        /\ Len(Deletes(req[r1])) = 1 /\ Deletes(req[r1])[1].ok
        /\ req[r1].intact
        /\ req[r2].pc = "app"
        /\ req[r2].cookies = req[r1].cookies
        /\ req[r2].how = "absent"
        /\ req[r2].session = EmptyDict

(***************************************************************************)
(* C3: two requests in flight whose identifiers are distinct never touch   *)
(* each other's store key: a step of one makes no store call on a key of   *)
(* the other and leaves the other's records (value and lifetime) as they   *)
(* were, so what it reads into its session is never the other's data.      *)
(***************************************************************************)
InFlight(q) == q.type \in {"http", "websocket"} /\ q.pc \in {"app", "started", "sent"}
Ident(q) ==
    ({q.session_id, q.new_id} \cup (IF CookieVerifies(q) THEN {CookieId(q)} ELSE {}))
    \ {None}
KeysOf(q) ==
    {StoreKey(id) : id \in Ident(q)} \cup {q.calls[i].key : i \in 1..Len(q.calls)}
NewCalls(r) == SubSeq(req'[r].calls, Len(req[r].calls) + 1, Len(req'[r].calls))
SameRecord(st1, st2, key) ==
    /\ (key \in DOMAIN st1) = (key \in DOMAIN st2)
    /\ key \in DOMAIN st1 => st1[key] = st2[key]

C3_Isolation ==
    [][\A r1, r2 \in Req :
          ( /\ r1 # r2
            /\ req[r1].pc # req'[r1].pc
            /\ InFlight(req[r2])
            /\ (Ident(req[r1]) \cup Ident(req'[r1])) \cap Ident(req[r2]) = {} )
          => /\ \A i \in 1..Len(NewCalls(r1)) : NewCalls(r1)[i].key \notin KeysOf(req[r2])
             /\ \A k \in KeysOf(req[r2]) : SameRecord(store, store', k)]_vars

C3_Witness ==
    \E r1, r2 \in Req :
        /\ r1 # r2
        /\ PastStart(req[r1]) /\ PastStart(req[r2])
        /\ Ident(req[r1]) \cap Ident(req[r2]) = {}
        /\ Len(Reads(req[r1])) = 1 /\ Reads(req[r1])[1].ok
        /\ Len(Setexes(req[r1])) = 1 /\ Setexes(req[r1])[1].ok
        /\ Len(Setexes(req[r2])) = 1 /\ Setexes(req[r2])[1].ok

(***************************************************************************)
(* C4: when the GET raises for a request whose cookie verifies, the        *)
(* handler still runs, with an empty session attached, and no exception    *)
(* leaves the middleware.                                                  *)
(***************************************************************************)
GetRaised(q) == Len(Reads(q)) = 1 /\ ~Reads(q)[1].ok

C4_FailOpenOnRead ==
    \A r \in Req :
        ( /\ req[r].type \in {"http", "websocket"}
          /\ req[r].pc \notin {"new", "done"}
          /\ CookieVerifies(req[r])
          /\ GetRaised(req[r]) )
        => /\ req[r].pc \in {"app", "started", "sent"}
           /\ req[r].attached
           /\ req[r].initial = EmptyDict
           /\ req[r].escaped = NoExc

C4_Witness ==
    \E r \in Req :
        /\ req[r].pc = "app" /\ req[r].attached
        /\ CookieVerifies(req[r]) /\ GetRaised(req[r])
        /\ StoreKey(CookieId(req[r])) \in DOMAIN store

(***************************************************************************)
(* C5: for requests whose cookie verifies to the same id and that reach    *)
(* response start with the same session, the outcome is the same whether   *)
(* the store had no record, the GET raised or the value was malformed:     *)
(* same initial session, same identifier at response time, same store      *)
(* operation, same Set-Cookie header.                                      *)
(***************************************************************************)
Outcome(q) ==
    [initial |-> q.initial, identifier |-> q.session_id,
     operation |-> [i \in 1..Len(Writes(q)) |->
                       <<Writes(q)[i].op, Writes(q)[i].key>>],
     headers |-> q.headers]

C5_ReadFailureLikeAbsent ==
    \A r1, r2 \in Req :
        ( /\ PastStart(req[r1]) /\ PastStart(req[r2])
          /\ CookieVerifies(req[r1]) /\ req[r2].cookies = req[r1].cookies
          /\ req[r1].how = "absent"
          /\ req[r2].how \in {"getfail", "malformed"}
          /\ req[r1].session = req[r2].session )
        => Outcome(req[r1]) = Outcome(req[r2])

(***************************************************************************)
(* C6: when the SETEX or DELETE of a response raises, there is no second   *)
(* attempt, the message still goes on to send, and it carries the header   *)
(* of the decision table: the signed cookie of the identifier addressed    *)
(* after a failed SETEX, the Max-Age=0 cookie after a failed DELETE.       *)
(***************************************************************************)
WriteRaisedIn(q) == \E i \in 1..Len(Writes(q)) : ~Writes(q)[i].ok

C6_WriteFailureSwallowed ==
    \A r \in Req :
        ( /\ req[r].type = "http"
          /\ req[r].pc \in {"started", "sent", "failed"}
          /\ WriteRaisedIn(req[r]) )
        => /\ Len(Writes(req[r])) = 1
           /\ req[r].pc \in {"started", "sent"}
           /\ req[r].escaped = NoExc
           /\ Len(req[r].headers) = 1
           /\ LET w == Writes(req[r])[1]
                  h == req[r].headers[1]
              IN  /\ w.op = "setex" =>
                        /\ h.maxage = max_age
                        /\ \E id \in Ids : w.key = StoreKey(id) /\ h.value = SignerDumps(id)
                  /\ w.op = "delete" => h.maxage = 0 /\ h.value = <<>>

C6_Witness ==
    \E r1, r2 \in Req :
        /\ Responded(req[r1]) /\ Responded(req[r2])
        /\ Len(Setexes(req[r1])) = 1 /\ ~Setexes(req[r1])[1].ok
        /\ Len(Deletes(req[r2])) = 1 /\ ~Deletes(req[r2])[1].ok

(***************************************************************************)
(* C7: whatever fails in the session layer (building the client, GET,      *)
(* SETEX, DELETE, a bad signature, a malformed value), no exception leaves *)
(* the middleware, and a response the handler has started is forwarded.    *)
(***************************************************************************)
C7_NeverAborts ==
    /\ [](\A r \in Req : req[r].pc # "failed" /\ req[r].escaped = NoExc)
    /\ \A r \in Req : (req[r].pc = "started") ~> (req[r].pc \in {"sent", "done"})

C7_Witness ==
    \E r1, r2 \in Req :
        /\ Responded(req[r1]) /\ Responded(req[r2])
        /\ req[r1].how = "noclient" /\ DictTruthy(req[r1].session)
        /\ req[r2].how = "badsig"

C7_WitnessStoreDown ==
    \E r1, r2 \in Req :
        /\ Responded(req[r1]) /\ Responded(req[r2])
        /\ req[r1].how = "getfail" /\ WriteRaisedIn(req[r1])
        /\ req[r2].how = "malformed"

(***************************************************************************)
(* C8: a request whose cookie verifies to id and whose session is empty at *)
(* response start issues a DELETE of session:<id> and appends the          *)
(* Max-Age=0 cookie, whether or not a record existed.                      *)
(***************************************************************************)
ClearsSession(q) ==
    /\ Len(Deletes(q)) = 1 /\ Deletes(q)[1].key = StoreKey(CookieId(q))
    /\ Len(Setexes(q)) = 0
    /\ Len(q.headers) = 1
    /\ q.headers[1].maxage = 0 /\ q.headers[1].value = <<>>

C8_ValidEmptyClears ==
    \A r \in Req :
        ( /\ PastStart(req[r]) /\ CookieVerifies(req[r])
          /\ req[r].session = EmptyDict )
        => ClearsSession(req[r])

\* the same, for the requests whose read did not raise
C8_ClearsAfterGoodRead ==
    \A r \in Req :
        ( /\ PastStart(req[r]) /\ CookieVerifies(req[r])
          /\ req[r].session = EmptyDict
          /\ req[r].how \in {"hit", "absent"} )
        => ClearsSession(req[r])

(***************************************************************************)
(* C9: a request whose cookie verifies to id and whose session is not      *)
(* empty at response start writes session:<id> (the identifier is reused)  *)
(* and appends a signed cookie that decodes to id, changed session or not. *)
(***************************************************************************)
ReusesIdentifier(q) ==
    /\ q.new_id = CookieId(q)
    /\ Len(Setexes(q)) = 1 /\ Setexes(q)[1].key = StoreKey(CookieId(q))
    /\ Len(Deletes(q)) = 0
    /\ Len(q.headers) = 1
    /\ SignerLoads(q.headers[1].value) = [exc |-> NoExc, val |-> CookieId(q)]

C9_ValidNonEmptyReuses ==
    \A r \in Req :
        ( /\ PastStart(req[r]) /\ CookieVerifies(req[r])
          /\ DictTruthy(req[r].session) )
        => ReusesIdentifier(req[r])

\* the same, for the requests whose read did not raise
C9_ReusesAfterGoodRead ==
    \A r \in Req :
        ( /\ PastStart(req[r]) /\ CookieVerifies(req[r])
          /\ DictTruthy(req[r].session)
          /\ req[r].how \in {"hit", "absent"} )
        => ReusesIdentifier(req[r])

(***************************************************************************)
(* C10: a request without cookie, or with a cookie that fails              *)
(* verification, whose session is empty at response start makes no SETEX   *)
(* and no DELETE and appends no Set-Cookie header; with a cookie that      *)
(* fails verification it makes no GET either.                              *)
(***************************************************************************)
C10_AnonymousEmptyNoEffects ==
    \A r \in Req :
        ( /\ PastStart(req[r]) /\ ~CookieVerifies(req[r])
          /\ req[r].session = EmptyDict )
        => /\ Len(Writes(req[r])) = 0
           /\ req[r].headers = <<>>
           /\ InvalidCookie(req[r]) => req[r].calls = <<>>

C10_Witness ==
    \E r1, r2 \in Req :
        /\ Responded(req[r1]) /\ NoCookie(req[r1]) /\ req[r1].session = EmptyDict
        /\ Responded(req[r2]) /\ InvalidCookie(req[r2]) /\ req[r2].session = EmptyDict
        /\ DOMAIN store # {}

(***************************************************************************)
(* C11: a request whose cookie fails verification and whose session is not *)
(* empty at response start is served like one without cookie: the SETEX    *)
(* and the cookie use an identifier uuid4 has just returned, and no call   *)
(* (GET, SETEX, DELETE) is made on a key built from the rejected value.    *)
(***************************************************************************)
\* the identifier a cookie value claims to carry, verified or not
PayloadId(v) ==
    IF Len(v) >= 1 /\ Len(v[1]) = 2 THEN v[1][2] ELSE None
SetexOk(q) == Len(Setexes(q)) = 1 /\ Setexes(q)[1].ok

C11_InvalidNonEmptyFresh ==
    \A r \in Req :
        ( /\ PastStart(req[r]) /\ InvalidCookie(req[r])
          /\ DictTruthy(req[r].session) )
        => /\ req[r].session_id = None
           /\ req[r].new_id \in FreshIds
           /\ req[r].new_id # PayloadId(RawOf(req[r].cookies))
           /\ Len(Reads(req[r])) = 0 /\ Len(Deletes(req[r])) = 0
           /\ Len(Setexes(req[r])) = 1
           /\ Setexes(req[r])[1].key = StoreKey(req[r].new_id)
           /\ \A i \in 1..Len(req[r].calls) :
                 req[r].calls[i].key # StoreKey(PayloadId(RawOf(req[r].cookies)))
           /\ req[r].headers = <<IssueCookie(req[r].new_id, https_only)>>

C11_Witness ==
    \E r \in Req :
        /\ Responded(req[r]) /\ InvalidCookie(req[r])
        /\ PayloadId(RawOf(req[r].cookies)) \in OldIds
        /\ DictTruthy(req[r].session) /\ SetexOk(req[r])
        /\ StoreKey(PayloadId(RawOf(req[r].cookies))) \in DOMAIN store
        /\ StoreKey(req[r].new_id) \in DOMAIN store

(***************************************************************************)
(* C12: when two requests in flight for the same identifier both ended     *)
(* with a non-empty session and both SETEX calls succeeded, the record     *)
(* holds, in full, the session of the one whose write has not been written *)
(* over (the later one): nothing of the earlier write is merged in and the *)
(* later write is not refused.                                             *)
(***************************************************************************)
C12_LastWriteWins ==
    \A r1, r2 \in Req :
        ( /\ r1 # r2
          /\ PastStart(req[r1]) /\ PastStart(req[r2])
          /\ DictTruthy(req[r1].session) /\ DictTruthy(req[r2].session)
          /\ SetexOk(req[r1]) /\ SetexOk(req[r2])
          /\ Setexes(req[r1])[1].key = Setexes(req[r2])[1].key
          /\ req[r2].intact )
        => LET k == Setexes(req[r2])[1].key IN
           /\ k \in DOMAIN store
           /\ JsonLoads(store[k].val) = [exc |-> NoExc, val |-> req[r2].session]

C12_Witness ==
    \E r1, r2 \in Req :
        /\ PastStart(req[r1]) /\ PastStart(req[r2])
        /\ req[r1].session = [k \in {"user", "token"} |-> "v"]
        /\ req[r2].session = [k \in {"user"} |-> "v"]
        /\ SetexOk(req[r1]) /\ SetexOk(req[r2])
        /\ Setexes(req[r1])[1].key = Setexes(req[r2])[1].key
        /\ req[r2].intact /\ ~req[r1].intact
        /\ store[Setexes(req[r2])[1].key].val = JsonDumps(req[r2].session)

(***************************************************************************)
(* C13 (as stated): a request cancelled at any point before its response   *)
(* has been sent in full has made no store write.                          *)
(***************************************************************************)
Cancelled(q) == q.pc \in CancelledAt
AppliedWrite(q) == \E i \in 1..Len(Writes(q)) : Writes(q)[i].ok

C13_NoWriteIfCancelled ==
    \A r \in Req : Cancelled(req[r]) => ~AppliedWrite(req[r])

(***************************************************************************)
(* C13 (amended): a request cancelled before its http.response.start       *)
(* message reaches send_wrapper (in the read path or inside the handler)   *)
(* has issued no SETEX and no DELETE and appended no Set-Cookie header.    *)
(***************************************************************************)
C13_NoWriteBeforeResponseStart ==
    \A r \in Req :
        req[r].pc \in {"cancelled:read", "cancelled:app"}
        => Len(Writes(req[r])) = 0 /\ req[r].headers = <<>>

C13_Witness ==
    \E r \in Req :
        /\ req[r].pc = "cancelled:app"
        /\ req[r].how = "hit"
        /\ req[r].session = [k \in {"user", "token"} |-> "v"]
        /\ req[r].session # req[r].initial
        /\ StoreKey(req[r].session_id) \in DOMAIN store
        /\ store[StoreKey(req[r].session_id)].val = JsonDumps(req[r].initial)

(***************************************************************************)
(* C14: after a successful SETEX by a request, and until the key is        *)
(* written, deleted, damaged or expired again, the record under its        *)
(* identifier is exactly the dump of the session at response start: it     *)
(* parses back to that session, so a key the handler removed is not in it. *)
(* No record in the store is a fragment or empty: each is the whole dump   *)
(* of a session some handler left, unless damaged from outside.            *)
(***************************************************************************)
C14_WholesaleOverwrite ==
    /\ \A r \in Req :
          ( PastStart(req[r]) /\ SetexOk(req[r]) /\ req[r].intact )
          => LET k == Setexes(req[r])[1].key IN
             /\ k = StoreKey(req[r].new_id)
             /\ k \in DOMAIN store
             /\ store[k].val = JsonDumps(req[r].session)
             /\ JsonLoads(store[k].val) = [exc |-> NoExc, val |-> req[r].session]
             /\ \A x \in (DOMAIN req[r].initial) \ (DOMAIN req[r].session) :
                   x \notin DOMAIN JsonLoads(store[k].val).val
    /\ \A k \in DOMAIN store :
          \/ store[k].val \in Damaged
          \/ \E d \in AppDicts : DictTruthy(d) /\ store[k].val = JsonDumps(d)

C14_Witness ==
    \E r \in Req :
        /\ PastStart(req[r]) /\ SetexOk(req[r]) /\ req[r].intact
        /\ req[r].initial = [k \in {"user", "token"} |-> "v"]
        /\ req[r].session = [k \in {"user"} |-> "v"]
        /\ store[Setexes(req[r])[1].key].val = JsonDumps(req[r].session)

(***************************************************************************)
(* C15: every SETEX the middleware issues carries the lifetime max_age,    *)
(* and every key in the store has a lifetime between 1 and max_age left    *)
(* (none is stored without expiry), so a key that is not written again is  *)
(* gone after max_age ticks.                                               *)
(***************************************************************************)
C15_BoundedLifetime ==
    /\ \A r \in Req : \A i \in 1..Len(Setexes(req[r])) :
          Setexes(req[r])[i].ttl = max_age
    /\ \A k \in DOMAIN store : store[k].ttl \in 1..max_age

C15_Witness ==
    \E r \in Req :
        /\ PastStart(req[r]) /\ SetexOk(req[r]) /\ req[r].intact
        /\ req[r].new_id \in FreshIds
        /\ store[Setexes(req[r])[1].key].ttl = 1

(***************************************************************************)
(* C16 (as stated): a request with a cookie that verifies, for a record    *)
(* that exists, ending with a non-empty session, sets the remaining        *)
(* lifetime of that record back to max_age.                                *)
(***************************************************************************)
C16_SlidingAlways ==
    [][\A r \in Req :
          ( /\ StartStep(r)
            /\ req[r].type = "http"
            /\ CookieVerifies(req[r])
            /\ StoreKey(CookieId(req[r])) \in DOMAIN store
            /\ DictTruthy(req[r].session) )
          => /\ StoreKey(CookieId(req[r])) \in DOMAIN store'
             /\ store'[StoreKey(CookieId(req[r]))].ttl = max_age]_vars

(***************************************************************************)
(* C16 (amended): ... provided the read path of the request did not fail   *)
(* (it kept the identifier) and its SETEX succeeds; this also holds when   *)
(* the handler changed nothing.                                            *)
(***************************************************************************)
C16_Sliding ==
    [][\A r \in Req :
          ( /\ StartStep(r)
            /\ req[r].type = "http"
            /\ CookieVerifies(req[r])
            /\ StoreKey(CookieId(req[r])) \in DOMAIN store
            /\ DictTruthy(req[r].session)
            /\ req[r].session_id # None
            /\ SetexOk(req'[r]) )
          => /\ StoreKey(CookieId(req[r])) \in DOMAIN store'
             /\ store'[StoreKey(CookieId(req[r]))].ttl = max_age
             /\ store'[StoreKey(CookieId(req[r]))].val = JsonDumps(req[r].session)]_vars

C16_Witness ==
    \E r \in Req :
        /\ PastStart(req[r]) /\ CookieVerifies(req[r])
        /\ req[r].how = "hit"
        /\ req[r].session = req[r].initial
        /\ SetexOk(req[r]) /\ req[r].intact
        /\ store[StoreKey(CookieId(req[r]))].ttl = max_age

(***************************************************************************)
(* C17: whatever the https_only toggle is, every Set-Cookie header the     *)
(* middleware builds, issuing or clearing, carries HttpOnly, SameSite=lax  *)
(* and Path=/, carries Secure exactly when the toggle is on, and has       *)
(* Max-Age max_age when issuing and 0 when clearing.  For each header a    *)
(* request was given, the header of the same branch is built for either    *)
(* value of the toggle.                                                    *)
(***************************************************************************)
Issuing(h) == h.value # <<>>
HeaderFor(q, i, toggle) ==
    IF Issuing(q.headers[i]) THEN IssueCookie(q.new_id, toggle) ELSE ClearCookie
AttributesFor(h, toggle) ==
    /\ h.name = session_cookie
    /\ h.httponly /\ h.samesite = "lax" /\ h.path = "/"
    /\ h.secure = toggle
    /\ h.maxage = IF Issuing(h) THEN max_age ELSE 0

C17_CookieAttributes ==
    \A toggle \in BOOLEAN : \A r \in Req :
        PastStart(req[r]) =>
            \A i \in 1..Len(req[r].headers) :
                /\ toggle = https_only => HeaderFor(req[r], i, toggle) = req[r].headers[i]
                /\ AttributesFor(HeaderFor(req[r], i, toggle), toggle)

\* the same, for the toggle as main.py leaves it (off)
C17_AttributesToggleOff ==
    \A r \in Req :
        PastStart(req[r]) =>
            \A i \in 1..Len(req[r].headers) :
                AttributesFor(req[r].headers[i], https_only)

(***************************************************************************)
(* C18: the value of every session cookie in a response is either empty    *)
(* (the clearing cookie) or the signer's output for the identifier whose   *)
(* record the request addressed: an encoded identifier followed by its     *)
(* tag under secret_key.  The same holds of every value a client holds.    *)
(***************************************************************************)
Signed(v, id) ==
    /\ Len(v) = 2
    /\ v[1] = Encode(id)
    /\ v[2] = Mac(secret_key, v[1])

C18_NeverUnsigned ==
    /\ \A r \in Req :
          PastStart(req[r]) =>
              \A i \in 1..Len(req[r].headers) :
                  LET h == req[r].headers[i] IN
                  \/ /\ h.value = <<>> /\ h.maxage = 0
                     /\ Len(Setexes(req[r])) = 0
                  \/ /\ Signed(h.value, req[r].new_id)
                     /\ req[r].new_id \in Ids
                     /\ \A j \in 1..Len(Writes(req[r])) :
                           Writes(req[r])[j].key = StoreKey(req[r].new_id)
    /\ \A v \in jar : v = <<>> \/ \E id \in Ids : Signed(v, id)

C18_Witness ==
    \E r1, r2 \in Req :
        /\ Responded(req[r1]) /\ Len(req[r1].headers) = 1
        /\ Issuing(req[r1].headers[1]) /\ req[r1].new_id \in FreshIds
        /\ Responded(req[r2]) /\ Len(req[r2].headers) = 1
        /\ ~Issuing(req[r2].headers[1])

(***************************************************************************)
(* C19: for every identifier id, loads(dumps(id)) returns id; so the       *)
(* cookie a response was given decodes to the identifier it was issued     *)
(* for, and a request presenting a cookie issued during the run verifies.  *)
(***************************************************************************)
C19_SignerRoundTrip ==
    /\ \A id \in Ids : SignerLoads(SignerDumps(id)) = [exc |-> NoExc, val |-> id]
    /\ \A r \in Req :
          ( PastStart(req[r]) /\ req[r].new_id # None )
          => /\ Len(req[r].headers) = 1
             /\ SignerLoads(req[r].headers[1].value)
                   = [exc |-> NoExc, val |-> req[r].new_id]
    /\ \A v \in jar \ {<<>>} : SignerLoads(v).exc = NoExc

C19_Witness ==
    \E r \in Req :
        /\ req[r].pc = "app"
        /\ CookieTruthy(req[r].cookies)
        /\ RawOf(req[r].cookies) \notin OldCookies \cup BadCookies
        /\ req[r].session_id \in FreshIds
        /\ req[r].session_id = SignerLoads(RawOf(req[r].cookies)).val
        /\ req[r].how = "hit"

(***************************************************************************)
(* C20: a cookie value that is not dumps(id) for any id (signed with       *)
(* another key, tag or payload cut short or missing, payload exchanged,    *)
(* something appended, not a signed value at all) makes loads raise        *)
(* BadSignature and give no identifier; the read path then ends with       *)
(* session_id None and an empty session, makes no store call, and lets no  *)
(* exception out, whatever the store and the client are.                   *)
(***************************************************************************)
Tampered ==
    UNION {
      { Forged(id),
        <<Encode(id)>>,
        <<Encode(id), <<"hmac", secret_key>>>>,
        <<<<"b64">>, Mac(secret_key, Encode(id))>>,
        <<<<"b64">>, Mac(secret_key, <<"b64">>)>>,
        <<Encode(id), Mac(secret_key, Encode(id)), <<"x">>>> }
      \cup {<<Encode(id2), Mac(secret_key, Encode(id))>> : id2 \in Ids \ {id}}
      : id \in Ids }
    \cup {<<<<"junk">>>>}

C20_VerifyFailsClosed ==
    /\ \A v \in Tampered :
          /\ \A id \in Ids : v # SignerDumps(id)
          /\ SignerLoads(v) = [exc |-> "BadSignature", val |-> None]
          /\ \A getOk \in BOOLEAN :
                LET rd == ReadPath({v}, redisClient, redis_url_ok, store, getOk) IN
                /\ rd.session_id = None
                /\ rd.initial_data = EmptyDict
                /\ rd.calls = <<>>
                /\ rd.escaped = NoExc
                /\ rd.how = "badsig"
    /\ \A r \in Req :
          ( /\ req[r].type \in {"http", "websocket"}
            /\ req[r].pc \notin {"new", "done"}
            /\ CookieTruthy(req[r].cookies)
            /\ RawOf(req[r].cookies) \in Tampered )
          => /\ req[r].how = "badsig"
             /\ req[r].session_id = None
             /\ req[r].initial = EmptyDict
             /\ Len(Reads(req[r])) = 0
             /\ req[r].escaped = NoExc /\ req[r].pc # "failed"

C20_Witness ==
    \E r \in Req :
        /\ req[r].pc = "app" /\ req[r].attached
        /\ CookieTruthy(req[r].cookies)
        /\ RawOf(req[r].cookies) \in Tampered
        /\ StoreKey(PayloadId(RawOf(req[r].cookies))) \in DOMAIN store
        /\ redisClient # NoClient

(***************************************************************************)
(* C21: self._redis is None until a request makes a store call; the step   *)
(* that sets it is a step in which a request makes a store call; every     *)
(* store call leaves it set; and once set it keeps its value for good, so  *)
(* one client serves all requests of the middleware.                       *)
(***************************************************************************)
MakesStoreCall(r) == Len(req'[r].calls) > Len(req[r].calls)

C21_LazyOnce ==
    /\ redisClient = NoClient
    /\ [][ /\ redisClient # NoClient => redisClient' = redisClient
           /\ (redisClient = NoClient /\ redisClient' # NoClient)
                 => \E r \in Req : MakesStoreCall(r)
           /\ \A r \in Req : MakesStoreCall(r) => redisClient' = TheClient ]_vars

C21_Witness ==
    \E r1, r2 \in Req :
        /\ r1 # r2
        /\ redisClient = TheClient
        /\ Len(Reads(req[r1])) = 1 /\ Len(Writes(req[r1])) = 1
        /\ NoCookie(req[r2]) /\ Len(Writes(req[r2])) = 1

(***************************************************************************)
(* C22: for a scope that is neither http nor websocket the wrapped app is  *)
(* called with what the caller gave: no session is attached, the cookie is *)
(* not looked at (no signer call), no store call is made and no header is  *)
(* appended.                                                               *)
(***************************************************************************)
C22_PassThrough ==
    \A r \in Req :
        ( req[r].type \notin {"http", "websocket"} /\ req[r].pc \notin {"new", "done"} )
        => /\ req[r].how = "passthrough"
           /\ ~req[r].attached
           /\ req[r].session = EmptyDict /\ req[r].session_id = None
           /\ req[r].calls = <<>> /\ req[r].headers = <<>>
           /\ req[r].escaped = NoExc

C22_Witness ==
    \E r1, r2 \in Req :
        /\ req[r1].type = "lifespan" /\ req[r1].pc = "app"
        /\ CookieVerifies(req[r1])
        /\ StoreKey(CookieId(req[r1])) \in DOMAIN store
        /\ req[r2].type = "http" /\ req[r2].cookies = req[r1].cookies
        /\ req[r2].how = "hit"

(***************************************************************************)
(* C23 (as stated): after a request ended with a non-empty session (the    *)
(* login, or any request after it), the next request presenting the cookie *)
(* of that response starts with the same data and the same identifier, and *)
(* a request with a verified cookie that ends non-empty keeps the          *)
(* identifier of its cookie.                                               *)
(***************************************************************************)
C23_PersistsAlways ==
    [][\A r1, r2 \in Req :
          /\ ( /\ r1 # r2
               /\ Responded(req[r1]) /\ DictTruthy(req[r1].session)
               /\ Len(req[r1].headers) = 1
               /\ CallStep(r2)
               /\ req'[r2].type = "http"
               /\ req'[r2].cookies = {req[r1].headers[1].value} )
             => /\ req'[r2].session = req[r1].session
                /\ req'[r2].session_id = req[r1].new_id
          /\ ( /\ StartStep(r1) /\ req[r1].type = "http"
               /\ CookieVerifies(req[r1]) /\ DictTruthy(req[r1].session) )
             => req'[r1].new_id = CookieId(req[r1])]_vars

(***************************************************************************)
(* C23 (amended): ... provided the SETEX of the earlier response           *)
(* succeeded, the record is still as it left it, and the read of the next  *)
(* request succeeds (so that it keeps the identifier).                     *)
(***************************************************************************)
C23_Persists ==
    [][\A r1, r2 \in Req :
          /\ ( /\ r1 # r2
               /\ Responded(req[r1]) /\ DictTruthy(req[r1].session)
               /\ Len(req[r1].headers) = 1
               /\ SetexOk(req[r1]) /\ req[r1].intact
               /\ CallStep(r2)
               /\ req'[r2].type = "http"
               /\ req'[r2].cookies = {req[r1].headers[1].value}
               /\ Len(Reads(req'[r2])) = 1 /\ Reads(req'[r2])[1].ok )
             => /\ req'[r2].session = req[r1].session
                /\ req'[r2].session_id = req[r1].new_id
          /\ ( /\ StartStep(r1) /\ req[r1].type = "http"
               /\ CookieVerifies(req[r1]) /\ DictTruthy(req[r1].session)
               /\ req[r1].session_id # None )
             => /\ req'[r1].new_id = CookieId(req[r1])
                /\ req'[r1].headers = <<IssueCookie(CookieId(req[r1]), https_only)>>]_vars

C23_Witness ==
    \E r1, r2 \in Req :
        /\ Responded(req[r1]) /\ CookieVerifies(req[r1])
        /\ req[r1].how = "hit" /\ SetexOk(req[r1])
        /\ PastStart(req[r2]) /\ req[r2].how = "hit"
        /\ req[r2].cookies = {req[r1].headers[1].value}
        /\ req[r2].initial = req[r1].session
        /\ req[r2].new_id = req[r1].new_id
        /\ SetexOk(req[r2])


(***************************************************************************)
(* Vocabulary of the route properties, read off the session itself.        *)
(***************************************************************************)
AdminOnly ==
    {"new_student_form", "create_student", "edit_student_form", "update_student",
     "new_department_form", "create_department", "edit_department_form",
     "update_department"}
Protected ==
    AdminOnly \cup {"list_students", "student_detail", "list_departments",
                    "department_detail"}
HasUser(session) == "user" \in DOMAIN session /\ session["user"] # EmptyDict
SubIn(session) ==
    IF HasUser(session) /\ "sub" \in DOMAIN session["user"]
    THEN session["user"]["sub"] ELSE None
RolesIn(session) ==
    IF /\ "token" \in DOMAIN session
       /\ "resource_access" \in DOMAIN session["token"]
       /\ "student-app" \in DOMAIN session["token"]["resource_access"]
       /\ "roles" \in DOMAIN session["token"]["resource_access"]["student-app"]
    THEN session["token"]["resource_access"]["student-app"]["roles"]
    ELSE {}
Served == resp.route # "none"

\* C24: a request without a user in its session is answered 401 on every
\* protected route, whatever roles its token carries, and 302 to /login-page
\* on the home route; a request with a user but without the admin role is
\* answered 403 on every admin-only route; and a step that changes the
\* database is the response to a request whose session has a user and the
\* admin role.
C24_Answered ==
    Served =>
        /\ ~HasUser(resp.session) /\ resp.route \in Protected => resp.status = 401
        /\ ~HasUser(resp.session) /\ resp.route = "home" =>
              resp.status = 302 /\ resp.location = <<"/login-page">>
        /\ /\ HasUser(resp.session)
           /\ "admin" \notin RolesIn(resp.session)
           /\ resp.route \in AdminOnly
           => resp.status = 403
C24_AccessControl ==
    /\ []C24_Answered
    /\ [][db' # db => HasUser(resp'.session) /\ "admin" \in RolesIn(resp'.session)]_vars

\* a student was refused the update of a row an admin had created
C24_Witness ==
    /\ resp.route = "update_student"
    /\ resp.id \in 1..Len(db.students)
    /\ HasUser(resp.session)
    /\ RolesIn(resp.session) = {"student"}
    /\ resp.status = 403

\* an admin token without a user was answered 401 on an admin-only route
C24_WitnessNoUser ==
    /\ resp.route = "create_department"
    /\ ~HasUser(resp.session)
    /\ "admin" \in RolesIn(resp.session)
    /\ resp.status = 401

StudentOnly(session) ==
    /\ HasUser(session)
    /\ "student" \in RolesIn(session)
    /\ "admin" \notin RolesIn(session)
    /\ "staff" \notin RolesIn(session)

\* C25: for a user whose roles include student but neither admin nor staff,
\* the student list shows at most one row and only a row whose
\* keycloak_user_id equals the user's sub, and the detail route for an
\* existing row with a different keycloak_user_id is answered 403.
C25_OwnRecordOnly ==
    Served /\ StudentOnly(resp.session) =>
        /\ resp.route = "list_students" =>
              /\ Cardinality(resp.shown) <= 1
              /\ \A i \in resp.shown :
                    /\ i \in 1..Len(db.students)
                    /\ db.students[i].keycloak_user_id = SubIn(resp.session)
        /\ /\ resp.route = "student_detail"
           /\ resp.id \in 1..Len(db.students)
           /\ db.students[resp.id].keycloak_user_id # SubIn(resp.session)
           => resp.status = 403 /\ resp.shown = {}

\* a student asked for the row of another user next to their own
C25_Witness ==
    /\ StudentOnly(resp.session)
    /\ resp.route = "student_detail"
    /\ resp.id \in 1..Len(db.students)
    /\ db.students[resp.id].keycloak_user_id \in Subs \ {SubIn(resp.session)}
    /\ \E i \in 1..Len(db.students) :
          db.students[i].keycloak_user_id = SubIn(resp.session)
    /\ resp.status = 403


\* C26: the store never holds an empty session.  Every SETEX the middleware
\* issues carries the JSON text of a non-empty mapping, every record in the
\* store that the environment has not damaged is such a text, and a request
\* whose context is empty at response start issues no SETEX: it issues one
\* DELETE or no store operation.
NonEmptyRecord(text) ==
    LET parsed == JsonLoads(text) IN parsed.exc = NoExc /\ DictTruthy(parsed.val)
C26_NoEmptySession ==
    /\ \A r \in Req : \A i \in 1..Len(req[r].calls) :
          req[r].calls[i].op = "setex" => NonEmptyRecord(req[r].calls[i].val)
    /\ \A k \in DOMAIN store : store[k].val \in Damaged \/ NonEmptyRecord(store[k].val)
    /\ \A r \in Req :
          PastStart(req[r]) /\ ~DictTruthy(req[r].session) =>
              /\ Setexes(req[r]) = <<>>
              /\ Len(Deletes(req[r])) <= 1

\* one request has cleared its session with a DELETE while the record another
\* request wrote is in the store
C26_Witness ==
    \E r1, r2 \in Req :
        /\ PastStart(req[r1]) /\ ~DictTruthy(req[r1].session)
        /\ Len(Deletes(req[r1])) = 1 /\ Deletes(req[r1])[1].ok
        /\ PastStart(req[r2]) /\ DictTruthy(req[r2].session)
        /\ Len(Setexes(req[r2])) = 1 /\ Setexes(req[r2])[1].ok
        /\ Setexes(req[r2])[1].key \in DOMAIN store
        /\ store[Setexes(req[r2])[1].key].val = Setexes(req[r2])[1].val


(***************************************************************************)
(* The read path failed after the signature had verified: the client could *)
(* not be constructed, the GET raised, or the stored text did not parse.   *)
(***************************************************************************)
ReadFailed(q) ==
    /\ InFlight(q)
    /\ CookieVerifies(q)
    /\ q.how \in {"noclient", "getfail", "malformed"}
TouchesOld(q) ==
    \E i \in 1..Len(Writes(q)) : Writes(q)[i].key = StoreKey(CookieId(q))

\* C27 (as stated): after such a failure the request forgets the cookie's
\* identifier; it issues no write or delete for session:<id>; a non-empty
\* context is written with one SETEX under a freshly generated identifier;
\* an empty context gives no store operation and no Set-Cookie header.
C27_ForgetsAndStores ==
    \A r \in Req :
        ReadFailed(req[r]) =>
            /\ req[r].session_id = None
            /\ ~TouchesOld(req[r])
            /\ PastStart(req[r]) /\ DictTruthy(req[r].session) =>
                  /\ req[r].new_id \in FreshIds \ {CookieId(req[r])}
                  /\ Len(Setexes(req[r])) = 1
                  /\ Setexes(req[r])[1].key = StoreKey(req[r].new_id)
            /\ PastStart(req[r]) /\ ~DictTruthy(req[r].session) =>
                  Writes(req[r]) = <<>> /\ req[r].headers = <<>>

\* C27 (amended): ... a non-empty context gets a freshly generated
\* identifier and the signed cookie for it; when the client cannot be
\* constructed no store call is made for it, otherwise exactly one SETEX is
\* issued, under the fresh identifier, with the context and the full TTL,
\* and the record is in the store if that SETEX succeeded and nothing has
\* changed the key since.
C27_Forgets ==
    \A r \in Req :
        ReadFailed(req[r]) =>
            /\ req[r].session_id = None
            /\ ~TouchesOld(req[r])
            /\ req[r].pc = "app" => Writes(req[r]) = <<>>
            /\ PastStart(req[r]) /\ DictTruthy(req[r].session) =>
                  /\ req[r].new_id \in FreshIds \ {CookieId(req[r])}
                  /\ Deletes(req[r]) = <<>>
                  /\ Len(Setexes(req[r])) = IF req[r].how = "noclient" THEN 0 ELSE 1
                  /\ \A i \in 1..Len(Setexes(req[r])) :
                        /\ Setexes(req[r])[i].key = StoreKey(req[r].new_id)
                        /\ Setexes(req[r])[i].val = JsonDumps(req[r].session)
                        /\ Setexes(req[r])[i].ttl = max_age
                  /\ SetexOk(req[r]) /\ req[r].intact =>
                        /\ StoreKey(req[r].new_id) \in DOMAIN store
                        /\ store[StoreKey(req[r].new_id)].val = JsonDumps(req[r].session)
                  /\ req[r].headers = <<IssueCookie(req[r].new_id, https_only)>>
            /\ PastStart(req[r]) /\ ~DictTruthy(req[r].session) =>
                  /\ Writes(req[r]) = <<>>
                  /\ req[r].headers = <<>>
                  /\ req[r].new_id = None

\* the GET of a request raised, its session was stored under a new
\* identifier, and the record of its cookie is in the store as it was
C27_Witness ==
    \E r \in Req :
        /\ ReadFailed(req[r]) /\ req[r].how = "getfail"
        /\ PastStart(req[r]) /\ DictTruthy(req[r].session)
        /\ SetexOk(req[r])
        /\ StoreKey(req[r].new_id) \in DOMAIN store
        /\ StoreKey(CookieId(req[r])) \in DOMAIN store
        /\ store[StoreKey(CookieId(req[r]))].val = OldRecord.val


(***************************************************************************)
(* Request b found the record of its cookie's identifier; request a, with  *)
(* the same identifier, has ended its response start with an empty session *)
(* and a DELETE the store executed; the key has been absent ever since, so *)
(* b's read came before a's delete; b's session is non-empty and this     *)
(* step is b's http.response.start.                                        *)
(***************************************************************************)
LogoutRace(a, b) ==
    /\ a # b
    /\ req[b].how = "hit" /\ CookieVerifies(req[b])
    /\ PastStart(req[a]) /\ ~DictTruthy(req[a].session)
    /\ Len(Deletes(req[a])) = 1 /\ Deletes(req[a])[1].ok
    /\ Deletes(req[a])[1].key = StoreKey(CookieId(req[b]))
    /\ req[a].intact
    /\ StoreKey(CookieId(req[b])) \notin DOMAIN store
    /\ DictTruthy(req[b].session)
    /\ StartStep(b)
Rewrites(b) ==
    /\ req'[b].pc = "started"
    /\ Len(NewCalls(b)) = 1
    /\ NewCalls(b)[1].op = "setex"
    /\ NewCalls(b)[1].key = StoreKey(CookieId(req[b]))
    /\ NewCalls(b)[1].ttl = max_age
    /\ NewCalls(b)[1].val = JsonDumps(req[b].session)
    /\ req'[b].headers = <<IssueCookie(CookieId(req[b]), https_only)>>
ExistsAgain(b) ==
    /\ StoreKey(CookieId(req[b])) \in DOMAIN store'
    /\ store'[StoreKey(CookieId(req[b]))] =
          [val |-> JsonDumps(req[b].session), ttl |-> max_age]

\* C28 (as stated): in that race b writes the record of the identifier
\* again with the full TTL and re-issues the signed cookie for it, so the
\* record exists again after the logout.
C28_LogoutUndoneAlways ==
    [][\A a, b \in Req : LogoutRace(a, b) => Rewrites(b) /\ ExistsAgain(b)]_vars

\* C28 (amended): in that race b issues a SETEX for the identifier with its
\* session and the full TTL and re-issues the signed cookie for it; the
\* record exists again if the store executes that SETEX.
C28_LogoutUndone ==
    [][\A a, b \in Req :
          LogoutRace(a, b) =>
              /\ Rewrites(b)
              /\ NewCalls(b)[1].ok => ExistsAgain(b)]_vars

\* a's delete was executed and then overwritten by b's write of the record
\* b had read before
C28_Witness ==
    \E a, b \in Req :
        /\ a # b
        /\ PastStart(req[a]) /\ ~DictTruthy(req[a].session)
        /\ Len(Deletes(req[a])) = 1 /\ Deletes(req[a])[1].ok
        /\ ~req[a].intact
        /\ PastStart(req[b]) /\ req[b].how = "hit" /\ DictTruthy(req[b].session)
        /\ SetexOk(req[b]) /\ req[b].intact
        /\ Setexes(req[b])[1].key = Deletes(req[a])[1].key
        /\ Setexes(req[b])[1].key \in DOMAIN store
        /\ store[Setexes(req[b])[1].key].ttl = max_age
        /\ req[b].headers = <<IssueCookie(req[b].session_id, https_only)>>


\* C29: an http request issues at most one store mutation, one SETEX or
\* one DELETE; none before its http.response.start is handled; the step
\* that forwards that message to the client comes after the mutation and
\* makes no store call; and the rest of the call, whatever the handler has
\* put in the session by then, changes neither the store nor the cookies.
AfterStartStep(r) ==
    /\ req[r].type = "http"
    /\ req[r].pc \in {"started", "sent"}
    /\ req'[r].pc # req[r].pc
C29_OneMutation ==
    \A r \in Req :
        req[r].type = "http" =>
            /\ Len(Writes(req[r])) <= 1
            /\ req[r].pc \in {"new", "app"} => Writes(req[r]) = <<>>
C29_OneMutationAtStart ==
    /\ []C29_OneMutation
    /\ [][\A r \in Req :
             /\ StartStep(r) =>
                   /\ Len(NewCalls(r)) <= 1
                   /\ store' # store => Len(NewCalls(r)) = 1 /\ NewCalls(r)[1].ok
             /\ AfterStartStep(r) =>
                   /\ store' = store
                   /\ jar' \subseteq jar \cup {req[r].headers[i].value :
                                                i \in 1..Len(req[r].headers)}
                   /\ req'[r].pc = "sent" => req'[r].calls = req[r].calls]_vars

\* the response start of a request has been forwarded, with the one SETEX
\* it made in the store, and another call has already returned
C29_Witness ==
    \E r1, r2 \in Req :
        /\ Responded(req[r1])
        /\ SetexOk(req[r1]) /\ req[r1].intact
        /\ Len(Writes(req[r1])) = 1
        /\ req[r2].pc = "done"

\* C30: on a websocket scope the middleware reads like for http: a rejected
\* cookie gives an empty session without a store call, and a record the GET
\* returns and that parses is the session of the scope.  It then issues no
\* SETEX and no DELETE and emits no Set-Cookie header for that connection,
\* whatever the handler leaves in the session, also when the connection's
\* messages pass through send_wrapper and the call returns.
Websocket(q) == q.type = "websocket" /\ q.pc = "app"
C30_ReadOnly ==
    \A r \in Req :
        Websocket(req[r]) =>
            /\ req[r].attached
            /\ Writes(req[r]) = <<>>
            /\ req[r].headers = <<>>
            /\ req[r].new_id = None
            /\ InvalidCookie(req[r]) \/ NoCookie(req[r]) =>
                  req[r].calls = <<>> /\ req[r].initial = EmptyDict
            /\ CookieVerifies(req[r]) /\ req[r].how # "noclient" =>
                  /\ Len(Reads(req[r])) = 1
                  /\ Reads(req[r])[1].key = StoreKey(CookieId(req[r]))
C30_WebsocketReadOnly ==
    /\ []C30_ReadOnly
    /\ [][\A r \in Req :
             /\ CallStep(r) /\ req'[r].type = "websocket"
                /\ Len(Reads(req'[r])) = 1 /\ Reads(req'[r])[1].ok
                /\ Reads(req'[r])[1].key \in DOMAIN store
                /\ JsonLoads(store[Reads(req'[r])[1].key].val).exc = NoExc
                => /\ req'[r].session = JsonLoads(store[Reads(req'[r])[1].key].val).val
                   /\ req'[r].session_id = CookieId(req'[r])
             /\ Websocket(req[r]) /\ req'[r].pc # "app" =>
                   store' = store /\ jar' = jar]_vars

\* a websocket connection loaded a record and its handler changed the session
C30_Witness ==
    \E r \in Req :
        /\ Websocket(req[r])
        /\ req[r].how = "hit"
        /\ DictTruthy(req[r].initial)
        /\ req[r].session # req[r].initial
        /\ StoreKey(req[r].session_id) \in DOMAIN store
        /\ JsonLoads(store[StoreKey(req[r].session_id)].val).val = req[r].initial

=============================================================================
